---- MODULE Spec2Model ----
(***************************************************************************)
(* Model of the request-scheduling core of the inference endpoint picker:  *)
(*   pkg/epp/scheduling/scheduler.go                    Scheduler          *)
(*   pkg/epp/scheduling/framework/scheduler_profile.go  SchedulerProfile   *)
(*                                                                         *)
(* Plugins (filters, scorers, pickers, post-cycle plugins, the profile     *)
(* picker) and the datastore are external code: what they return is an     *)
(* input of the step that calls them, drawn from a bounded set.            *)
(***************************************************************************)
EXTENDS Integers, Sequences, FiniteSets, TLC

(***************************************************************************)
(* Bounds                                                                  *)
(***************************************************************************)
\* pods are 1..NumPods
NumPods == 2
\* a scorer returns scores in 0..MaxScore
MaxScore == 1
\* the profile picker returns at most MaxPicks entries in one Schedule call
MaxPicks == 2
\* datastore updates interleaved with one Schedule call
MaxUpdates == 1

Pods == 1..NumPods

\* a nil *types.Result (pods are 1..NumPods)
NilResult == 0

\* a nil types.Pod
NilPod == 0

(***************************************************************************)
(* Go maps and slices                                                      *)
(***************************************************************************)
EmptyMap == [k \in {} |-> 0]

\* m[k] = v
MapPut(m, k, v) == [x \in (DOMAIN m) \cup {k} |-> IF x = k THEN v ELSE m[x]]

\* m[k], the zero value when k is absent
MapGet(m, k) == IF k \in DOMAIN m THEN m[k] ELSE 0

Range(s) == {s[i] : i \in DOMAIN s}

\* the slices that list the elements of S once each, in any order
Perms(S) == {s \in [1..Cardinality(S) -> S] : Range(s) = S}

\* the datastore lists its pods in ascending order
RECURSIVE SortedSeq(_)
SortedSeq(S) ==
    IF S = {} THEN <<>>
    ELSE LET m == CHOOSE x \in S : \A y \in S : x <= y
         IN  <<m>> \o SortedSeq(S \ {m})

DatastoreValues == {SortedSeq(S) : S \in SUBSET Pods}

(***************************************************************************)
(* SchedulerProfile and its builders                                       *)
(***************************************************************************)
NoPicker == "nil"

NewSchedulerProfile ==
    [filters |-> <<>>, scorers |-> <<>>, picker |-> NoPicker,
     postCyclePlugins |-> <<>>, PostResponsePlugins |-> <<>>]

WithFilters(p, filters) == [p EXCEPT !.filters = filters]

WithScorers(p, scorers) == [p EXCEPT !.scorers = scorers]

WithPicker(p, picker) == [p EXCEPT !.picker = picker]

WithPostCyclePlugins(p, plugins) == [p EXCEPT !.postCyclePlugins = plugins]

\* scorer.NewWeightedScorer(scorer, weight)
WeightedScorer(name, weight) == [Name |-> name, Weight |-> weight]

(***************************************************************************)
(* Scheduler configurations (NewSchedulerWithConfig)                       *)
(***************************************************************************)
ProfileNames == {"triage", "refine"}

\* a name the profile picker may return that is no key of s.profiles
UnregisteredName == "ghost"

FullProfile ==
    WithPostCyclePlugins(
      WithPicker(
        WithScorers(
          WithFilters(NewSchedulerProfile, <<"f1", "f2">>),
          <<WeightedScorer("s1", 1), WeightedScorer("s2", 2)>>),
        "picker"),
      <<"c1", "c2">>)

BareProfile == WithPicker(NewSchedulerProfile, "picker")

SchedulerConfigs ==
    { [triage |-> FullProfile, refine |-> BareProfile] }

(***************************************************************************)
(* State                                                                   *)
(***************************************************************************)
VARIABLES
    datastore,                \* what Datastore.PodGetAll returns now
    updates,                  \* datastore updates so far
    profiles,                 \* Scheduler.profiles: name -> SchedulerProfile
    pc,                       \* position of the Schedule call
    reads,                    \* PodGetAll calls of the Schedule call
    pickerCalls,              \* profilePicker.Pick calls of the Schedule call
    picks,                    \* entries the profile picker returned so far
    PodsSnapshot,             \* sCtx.PodsSnapshot
    profileExecutionResults,  \* Schedule's result map: name -> Result
    picked,                   \* Schedule's `profiles`: the entries still to run
    ret,                      \* what Schedule returned
    ran,                      \* history: the RunCycles that ended, in order
    curName,                  \* `name` of the profile being run
    curProfile,               \* `profile` being run
    filteredPods,             \* runFilterPlugins' filteredPods
    fi,                       \* index of the next filter
    weightedScorePerPod,      \* runScorerPlugins' accumulator
    si,                       \* index of the next scorer
    scoredPods,               \* the slice handed to the picker
    result,                   \* RunCycle's result
    ci,                       \* index of the next post-cycle plugin
    calls,                    \* history: plugin invocations of this RunCycle
    scoreLog,                 \* history: score maps of this score phase
    profilePicker,            \* Scheduler.profilePicker
    priorResults,             \* the result map the profile picker was handed last
    postCycled,               \* history: post-cycle invocations of this call
    runNo,                    \* which Schedule call of the scheduler this is
    firstRet,                 \* what the first Schedule call returned
    builder,                  \* the SchedulerProfile the builders work on
    built,                    \* history: the last builder call
    builds,                   \* builder calls so far
    rpc,                      \* position of the OnResponse call
    targetPodName,            \* OnResponse's targetPodName
    targetPod,                \* OnResponse's targetPod
    rPods,                    \* OnResponse's pods
    rPicked,                  \* OnResponse's `profiles`: the entries still to run
    rName,                    \* the entry OnResponse is running
    ri,                       \* index of the next post-response plugin
    rPickerArgs,              \* history: OnResponse's Pick calls
    respCalls                 \* history: post-response invocations

runVars == <<runNo, firstRet>>

buildVars == <<builder, built, builds>>

respVars == <<rpc, targetPodName, targetPod, rPods, rPicked, rName, ri,
              rPickerArgs, respCalls>>

\* what no step of a Schedule call writes
envVars == <<datastore, updates, profiles, profilePicker, runVars, buildVars,
             respVars>>

callVars == <<reads, pickerCalls, picks, PodsSnapshot>>

cycleVars == <<curName, curProfile, filteredPods, fi, weightedScorePerPod, si,
               scoredPods, result, ci, calls, scoreLog>>

vars == <<envVars, callVars, pc, profileExecutionResults, picked, ret, ran,
          cycleVars, priorResults, postCycled>>

(***************************************************************************)
(* Errors: the chain of messages, outermost first; <<>> is a nil error     *)
(***************************************************************************)
NoError == <<>>

\* errutil.Error{Code: errutil.Internal, Msg: "no pods available ..."}
NoPodsError == <<"Internal", "no pods available for the given request">>

\* fmt.Errorf("failed to run all required scheduling profiles - %w", err)
WrapCycleError(err) == <<"failed to run all required scheduling profiles">> \o err

\* fmt.Errorf("failed to run any SchedulingProfile for the request - %s", req)
NoProfileError == <<"failed to run any SchedulingProfile for the request">>

\* Schedule's return value: (map, error); isNil says the map is nil
Return(isNil, results, err) == [isNil |-> isNil, results |-> results, err |-> err]

NotReturned == Return(TRUE, EmptyMap, NoError)

\* one Schedule call is looked at
NoSecondRun ==
    /\ runNo = 1
    /\ firstRet = NotReturned

\* the profiles are built already
NoBuilder ==
    /\ builder = NewSchedulerProfile
    /\ built = [op |-> "none"]
    /\ builds = 0

\* no OnResponse call is made
NoResponse ==
    /\ rpc = "off"
    /\ targetPodName = NilPod
    /\ targetPod = NilPod
    /\ rPods = <<>>
    /\ rPicked = EmptyMap
    /\ rName = ""
    /\ ri = 1
    /\ rPickerArgs = <<>>
    /\ respCalls = <<>>

Init ==
    /\ datastore \in DatastoreValues
    /\ updates = 0
    /\ profiles \in SchedulerConfigs
    /\ pc = "idle"
    /\ reads = 0
    /\ pickerCalls = 0
    /\ picks = 0
    /\ PodsSnapshot = <<>>
    /\ profileExecutionResults = EmptyMap
    /\ picked = EmptyMap
    /\ ret = NotReturned
    /\ ran = <<>>
    /\ curName = ""
    /\ curProfile = NewSchedulerProfile
    /\ filteredPods = <<>>
    /\ fi = 1
    /\ weightedScorePerPod = EmptyMap
    /\ si = 1
    /\ scoredPods = <<>>
    /\ result = NilResult
    /\ ci = 1
    /\ calls = <<>>
    /\ scoreLog = <<>>
    /\ priorResults = EmptyMap
    /\ postCycled = <<>>
    /\ profilePicker = "custom"
    /\ NoSecondRun
    /\ NoBuilder
    /\ NoResponse

(***************************************************************************)
(* The datastore changes under the scheduler                               *)
(***************************************************************************)
DatastoreUpdate ==
    /\ pc # "returned"
    /\ updates < MaxUpdates
    /\ \E d \in DatastoreValues :
         /\ d # datastore
         /\ datastore' = d
    /\ updates' = updates + 1
    /\ UNCHANGED <<profiles, profilePicker, runVars, buildVars, respVars,
                   callVars, pc, profileExecutionResults, picked, ret, ran,
                   cycleVars, priorResults, postCycled>>

(***************************************************************************)
(* Scheduler.Schedule                                                      *)
(***************************************************************************)
\* types.ToSchedulerPodMetrics(s.datastore.PodGetAll())
PodGetAll == datastore

\* Schedule up to the profile loop: snapshot the pods, empty result map
ScheduleStart ==
    /\ pc = "idle"
    /\ PodsSnapshot' = PodGetAll
    /\ reads' = reads + 1
    /\ profileExecutionResults' = EmptyMap
    /\ pc' = "loop"
    /\ UNCHANGED <<envVars, priorResults, postCycled, pickerCalls, picks,
                   picked, ret, ran, cycleVars>>

\* what a profile picker may answer: registered profiles under their names
\* and, under UnregisteredName, any profile object it holds
ProfilePickerAnswers ==
    UNION { { [n \in N |-> IF n \in ProfileNames THEN profiles[n] ELSE profiles[t]]
              : t \in ProfileNames }
            : N \in SUBSET (ProfileNames \cup {UnregisteredName}) }

\* LoopExits gone wrong: the loop never breaks
LoopNeverExits(batch) == FALSE

\* if len(profiles) == 0 { break }
LoopExits(batch) == DOMAIN batch = {}

\* NoProfileRan gone wrong: the check after the loop is missing
NoProfileRanUnchecked(results) == FALSE

\* if len(profileExecutionResults) == 0 { return nil, error }
NoProfileRan(results) == DOMAIN results = {}

\* the end of Schedule, after the loop
AfterLoop(results) ==
    IF NoProfileRan(results)
    THEN Return(TRUE, EmptyMap, NoProfileError)
    ELSE Return(FALSE, results, NoError)

\* the profile picker of NewScheduler: every registered profile while no
\* profile has run, none afterwards
AllProfilesPick(results) ==
    IF DOMAIN results = {} THEN profiles ELSE EmptyMap

\* s.profilePicker.Pick(req, s.profiles, results), by the picker installed
ProfilePickerPlugin(picker, results) ==
    IF picker = "AllProfilesPicker"
    THEN {AllProfilesPick(results)}
    ELSE ProfilePickerAnswers

\* PriorResults gone wrong: the profile picker is handed a fresh map
PriorResultsFresh(results) == EmptyMap

\* the third argument of s.profilePicker.Pick: profileExecutionResults
PriorResults(results) == results

\* one pass of the loop head: s.profilePicker.Pick(req, s.profiles, results)
ProfilePickerPick ==
    /\ pc = "loop"
    /\ priorResults' = PriorResults(profileExecutionResults)
    /\ \E batch \in ProfilePickerPlugin(profilePicker, priorResults') :
         /\ picks + Cardinality(DOMAIN batch) <= MaxPicks
         /\ picks' = picks + Cardinality(DOMAIN batch)
         /\ pickerCalls' = pickerCalls + 1
         /\ IF LoopExits(batch)
            THEN /\ ret' = AfterLoop(profileExecutionResults)
                 /\ pc' = "returned"
                 /\ UNCHANGED picked
            ELSE /\ picked' = batch
                 /\ pc' = "range"
                 /\ UNCHANGED ret
    /\ UNCHANGED <<envVars, postCycled, reads, PodsSnapshot,
                   profileExecutionResults, ran, cycleVars>>

(***************************************************************************)
(* SchedulerProfile.RunCycle                                               *)
(***************************************************************************)
\* a plugin invocation, as the history keeps it: the context and the
\* argument the plugin is handed
Call(type, plugin, arg) ==
    [type |-> type, plugin |-> plugin, ctx |-> PodsSnapshot, arg |-> arg]

\* PluginAt gone wrong: the list is walked from its end
PluginAtReversed(plugins, i) == plugins[Len(plugins) + 1 - i]

\* `for _, plugin := range plugins`: the i-th pass takes the i-th element
PluginAt(plugins, i) == plugins[i]

\* FilterInput gone wrong: the filters start from a fresh read of the datastore
FilterInputFresh == datastore

\* filteredPods := ctx.PodsSnapshot
FilterInput == PodsSnapshot

\* `for name, profile := range profiles` takes the entries in any order;
\* RunCycle starts with runFilterPlugins
RunCycleStart ==
    /\ pc = "range"
    /\ \E name \in DOMAIN picked :
         /\ curName' = name
         /\ curProfile' = picked[name]
    /\ filteredPods' = FilterInput
    /\ fi' = 1
    /\ pc' = "filter"
    /\ UNCHANGED <<envVars, priorResults, postCycled, callVars,
                   profileExecutionResults, picked, ret, ran,
                   weightedScorePerPod, si, scoredPods, result, ci, calls,
                   scoreLog>>

\* a filter returns a sub-slice of its input
FilterAnswers(pods) ==
    {SelectSeq(pods, LAMBDA x : x \in keep) : keep \in SUBSET Range(pods)}

\* filter.Filter(ctx, filteredPods), by the plugin: "odd" keeps the pods of
\* odd number, any other filter answers as it likes
FilterPlugin(name, pods) ==
    IF name = "odd"
    THEN {SelectSeq(pods, LAMBDA x : x % 2 = 1)}
    ELSE FilterAnswers(pods)

\* if len(filteredPods) == 0 { break }
FilterChainBreaks(pods) == Len(pods) = 0

\* one pass of the loop of runFilterPlugins
FilterStep ==
    /\ pc = "filter"
    /\ fi <= Len(curProfile.filters)
    /\ \E out \in FilterPlugin(PluginAt(curProfile.filters, fi), filteredPods) :
         /\ filteredPods' = out
         /\ fi' = IF FilterChainBreaks(out)
                  THEN Len(curProfile.filters) + 1
                  ELSE fi + 1
    /\ calls' = Append(calls,
                  Call("Filter", PluginAt(curProfile.filters, fi), filteredPods))
    /\ UNCHANGED <<envVars, priorResults, postCycled, callVars, pc,
                   profileExecutionResults, picked, ret, ran, curName,
                   curProfile, weightedScorePerPod, si, scoredPods, result,
                   ci, scoreLog>>

\* NoPodsAvailable gone wrong: RunCycle does not check the filtered pods
NoPodsUnchecked(pods) == FALSE

\* if len(pods) == 0 { return nil, errutil.Error{...} }
NoPodsAvailable(pods) == Len(pods) = 0

\* for _, pod := range pods { weightedScorePerPod[pod] = float64(0) }
InitialScores(pods) == [p \in Range(pods) |-> 0]

\* ScheduleFails gone wrong: the results so far are returned with the error
ScheduleFailsPartial(results, err) == Return(FALSE, results, WrapCycleError(err))

\* return nil, fmt.Errorf("failed to run all ... - %w", err)
ScheduleFails(results, err) == Return(TRUE, EmptyMap, WrapCycleError(err))

\* an entry of the history of RunCycles: the entry of the batch that was
\* run, whether RunCycle returned no error, and the Result it returned
Ran(name, profile, ok, res) ==
    [name |-> name, profile |-> profile, ok |-> ok, res |-> res]

\* runFilterPlugins returns; RunCycle's guard; the head of runScorerPlugins
FilterDone ==
    /\ pc = "filter"
    /\ fi > Len(curProfile.filters)
    /\ IF NoPodsAvailable(filteredPods)
       THEN /\ ret' = ScheduleFails(profileExecutionResults, NoPodsError)
            /\ ran' = Append(ran, Ran(curName, curProfile, FALSE, NilResult))
            /\ pc' = "returned"
            /\ UNCHANGED <<weightedScorePerPod, si>>
       ELSE /\ weightedScorePerPod' = InitialScores(filteredPods)
            /\ si' = 1
            /\ pc' = "score"
            /\ UNCHANGED <<ret, ran>>
    /\ UNCHANGED <<envVars, priorResults, postCycled, callVars,
                   profileExecutionResults, picked, curName, curProfile,
                   filteredPods, fi, scoredPods, result, ci, calls, scoreLog>>

\* a scorer returns a score for any pods it likes, not only for its input
ScoreAnswers == UNION {[D -> 0..MaxScore] : D \in SUBSET Pods}

\* scorer.Score(ctx, pods), by the plugin: "byId" scores a pod by its
\* number, any other scorer answers as it likes
ScorerPlugin(name, pods) ==
    IF name = "byId"
    THEN {[p \in Range(pods) |-> p % (MaxScore + 1)]}
    ELSE ScoreAnswers

\* Accumulate gone wrong: `=` for `+=`
AccumulateOverwrite(acc, scores, weight) ==
    [p \in (DOMAIN acc) \cup (DOMAIN scores) |->
        IF p \in DOMAIN scores THEN scores[p] * weight ELSE MapGet(acc, p)]

\* for pod, score := range scores {
\*     weightedScorePerPod[pod] += score * float64(scorer.Weight()) }
Accumulate(acc, scores, weight) ==
    [p \in (DOMAIN acc) \cup (DOMAIN scores) |->
        MapGet(acc, p) + (IF p \in DOMAIN scores THEN scores[p] * weight ELSE 0)]

\* one pass of the loop of runScorerPlugins
ScoreStep ==
    /\ pc = "score"
    /\ si <= Len(curProfile.scorers)
    /\ LET scorer == PluginAt(curProfile.scorers, si)
       IN  /\ \E scores \in ScorerPlugin(scorer.Name, filteredPods) :
                /\ weightedScorePerPod' =
                     Accumulate(weightedScorePerPod, scores, scorer.Weight)
                /\ scoreLog' = Append(scoreLog,
                     [scores |-> scores, weight |-> scorer.Weight])
           /\ calls' = Append(calls, Call("Scorer", scorer.Name, filteredPods))
    /\ si' = si + 1
    /\ UNCHANGED <<envVars, priorResults, postCycled, callVars, pc,
                   profileExecutionResults, picked, ret, ran, curName,
                   curProfile, filteredPods, fi, scoredPods, result, ci>>

\* scoredPods[i] = &types.ScoredPod{Pod: pod, Score: score}, in map order
ScoredPodsOf(acc) == Perms({[Pod |-> p, Score |-> acc[p]] : p \in DOMAIN acc})

\* a picker returns one of the pods it was handed, or nil
PickerAnswers(sp) == {NilResult} \cup {sp[i].Pod : i \in DOMAIN sp}

\* the first of the pods of highest score, in the order of the slice
FirstMax(sp) ==
    IF sp = <<>> THEN NilResult
    ELSE LET best == {i \in DOMAIN sp : \A j \in DOMAIN sp : sp[j].Score <= sp[i].Score}
         IN  sp[CHOOSE i \in best : \A j \in best : i <= j].Pod

\* p.picker.Pick(ctx, scoredPods), by the plugin: "firstMax" is FirstMax,
\* any other picker answers as it likes
PickerPlugin(name, sp) ==
    IF name = "firstMax" THEN {FirstMax(sp)} ELSE PickerAnswers(sp)

\* p.picker.Pick on a nil p.picker: a nil pointer dereference
PickerIsNil(p) == p.picker = NoPicker

\* runScorerPlugins returns; runPickerPlugin, which panics on a nil picker
PickStep ==
    /\ pc = "score"
    /\ si > Len(curProfile.scorers)
    /\ \E sp \in ScoredPodsOf(weightedScorePerPod) :
         /\ scoredPods' = sp
         /\ IF PickerIsNil(curProfile)
            THEN /\ pc' = "panic"
                 /\ UNCHANGED <<result, calls>>
            ELSE /\ \E r \in PickerPlugin(curProfile.picker, sp) : result' = r
                 /\ calls' = Append(calls,
                      Call("Picker", curProfile.picker, weightedScorePerPod))
                 /\ pc' = "postCycle"
    /\ scoreLog' = <<>>
    /\ ci' = 1
    /\ UNCHANGED <<envVars, priorResults, postCycled, callVars,
                   profileExecutionResults, picked, ret, ran, curName,
                   curProfile, filteredPods, fi, weightedScorePerPod, si>>

\* PostCycleArg gone wrong: the plugins are handed a nil Result
PostCycleArgNil(res) == NilResult

\* plugin.PostCycle(ctx, res): the Result of the picker
PostCycleArg(res) == res

\* one pass of the loop of runPostCyclePlugins
PostCycleStep ==
    /\ pc = "postCycle"
    /\ ci <= Len(curProfile.postCyclePlugins)
    /\ LET plugin == PluginAt(curProfile.postCyclePlugins, ci)
       IN  /\ calls' = Append(calls, Call("PostCycle", plugin, PostCycleArg(result)))
           /\ postCycled' = Append(postCycled,
                [name |-> curName, plugin |-> plugin, res |-> PostCycleArg(result)])
    /\ ci' = ci + 1
    /\ UNCHANGED <<envVars, priorResults, callVars, pc,
                   profileExecutionResults, picked, ret, ran, curName,
                   curProfile, filteredPods, fi, weightedScorePerPod, si,
                   scoredPods, result, scoreLog>>

\* the locals of RunCycle go out of scope
EndCycle ==
    /\ curName' = ""
    /\ curProfile' = NewSchedulerProfile
    /\ filteredPods' = <<>>
    /\ fi' = 1
    /\ weightedScorePerPod' = EmptyMap
    /\ si' = 1
    /\ scoredPods' = <<>>
    /\ result' = NilResult
    /\ ci' = 1
    /\ calls' = <<>>
    /\ scoreLog' = <<>>

\* what RunCycle returns after the post-cycle plugins: return result, nil
RunCycleResult(res) == [result |-> res, err |-> NoError]

\* StoreResult gone wrong: the map is replaced by the new entry
StoreResultAlone(results, name, res) == [x \in {name} |-> res]

\* profileExecutionResults[name] = profileExecutionResult
StoreResult(results, name, res) == MapPut(results, name, res)

\* RunCycle returns; Schedule checks err, stores the result and takes the
\* next entry of the batch, or goes back to the loop head
RunCycleReturn ==
    /\ pc = "postCycle"
    /\ ci > Len(curProfile.postCyclePlugins)
    /\ LET rc == RunCycleResult(result)
       IN  IF rc.err # NoError
           THEN /\ ret' = ScheduleFails(profileExecutionResults, rc.err)
                /\ ran' = Append(ran, Ran(curName, curProfile, FALSE, NilResult))
                /\ pc' = "returned"
                /\ UNCHANGED <<profileExecutionResults, picked>>
           ELSE /\ profileExecutionResults' =
                     StoreResult(profileExecutionResults, curName, rc.result)
                /\ ran' = Append(ran, Ran(curName, curProfile, TRUE, rc.result))
                /\ picked' = [n \in (DOMAIN picked) \ {curName} |-> picked[n]]
                /\ pc' = IF DOMAIN picked' = {} THEN "loop" ELSE "range"
                /\ UNCHANGED ret
    /\ EndCycle
    /\ UNCHANGED <<envVars, priorResults, postCycled, callVars>>

Next ==
    \/ DatastoreUpdate
    \/ ScheduleStart
    \/ ProfilePickerPick
    \/ RunCycleStart
    \/ FilterStep
    \/ FilterDone
    \/ ScoreStep
    \/ PickStep
    \/ PostCycleStep
    \/ RunCycleReturn

Spec == Init /\ [][Next]_vars

(***************************************************************************)
(* One RunCycle alone, for every shape of profile: Schedule has taken its  *)
(* snapshot and the profile picker has returned one profile.               *)
(***************************************************************************)
FilterLists == {<<>>, <<"f1">>, <<"f1", "f2">>}

ScorerLists ==
    { <<>>,
      <<WeightedScorer("s1", 1)>>,
      <<WeightedScorer("s2", 2)>>,
      <<WeightedScorer("s1", 1), WeightedScorer("s2", 2)>>,
      <<WeightedScorer("s2", 2), WeightedScorer("s1", 1)>> }

ProfileShapes ==
    { WithPostCyclePlugins(
        WithPicker(
          WithScorers(WithFilters(NewSchedulerProfile, fs), ws),
          "picker"),
        <<"c1">>) : fs \in FilterLists, ws \in ScorerLists }

InitCycle ==
    /\ datastore \in DatastoreValues
    /\ updates = 0
    /\ \E shape \in ProfileShapes :
         /\ profiles = [n \in ProfileNames |->
                          IF n = "triage" THEN shape ELSE BareProfile]
         /\ picked = [n \in {"triage"} |-> shape]
    /\ pc = "range"
    /\ reads = 1
    /\ pickerCalls = 1
    /\ picks = 1
    /\ PodsSnapshot = datastore
    /\ profileExecutionResults = EmptyMap
    /\ ret = NotReturned
    /\ ran = <<>>
    /\ curName = ""
    /\ curProfile = NewSchedulerProfile
    /\ filteredPods = <<>>
    /\ fi = 1
    /\ weightedScorePerPod = EmptyMap
    /\ si = 1
    /\ scoredPods = <<>>
    /\ result = NilResult
    /\ ci = 1
    /\ calls = <<>>
    /\ scoreLog = <<>>
    /\ priorResults = EmptyMap
    /\ postCycled = <<>>
    /\ profilePicker = "custom"
    /\ NoSecondRun
    /\ NoBuilder
    /\ NoResponse

NextCycle ==
    \/ RunCycleStart
    \/ FilterStep
    \/ FilterDone
    \/ ScoreStep
    \/ PickStep
    \/ PostCycleStep
    \/ RunCycleReturn

SpecCycle == InitCycle /\ [][NextCycle]_vars

(***************************************************************************)
(* A Schedule call that has been made keeps running: the plugins return.   *)
(***************************************************************************)
ScheduleStep ==
    \/ ScheduleStart
    \/ ProfilePickerPick
    \/ RunCycleStart
    \/ FilterStep
    \/ FilterDone
    \/ ScoreStep
    \/ PickStep
    \/ PostCycleStep
    \/ RunCycleReturn

FairSpec == Spec /\ WF_vars(ScheduleStep)

(***************************************************************************)
(* Properties                                                              *)
(***************************************************************************)
\* a RunCycle has failed: the history ends with it
CycleFailed == ran # <<>> /\ ~ran[Len(ran)].ok

\* C1: when the filter chain leaves no candidate pod, RunCycle returns no
\* result and the Internal error "no pods available for the given request";
\* in that cycle no filter runs after the one that returned empty, and no
\* scorer, picker or post-cycle plugin runs at all.
C1_NoPodsRule ==
    /\ pc \in {"score", "postCycle"} => filteredPods # <<>>
    /\ \A i \in DOMAIN calls :
         (i > 1 /\ calls[i].type \in {"Filter", "Scorer"}) => calls[i].arg # <<>>
    /\ (curName # "" /\ filteredPods = <<>>) =>
         /\ pc \in {"filter", "returned"}
         /\ \A i \in DOMAIN calls : calls[i].type = "Filter"
         /\ pc = "returned" =>
              /\ ret = Return(TRUE, EmptyMap, WrapCycleError(NoPodsError))
              /\ CycleFailed
              /\ curName \notin DOMAIN profileExecutionResults

\* C1 happens: the first of two filters empties a non-empty snapshot
C1_Witness ==
    /\ pc = "returned"
    /\ PodsSnapshot # <<>>
    /\ Len(curProfile.filters) = 2
    /\ Len(calls) = 1
    /\ filteredPods = <<>>
    /\ ret.err = WrapCycleError(NoPodsError)

\* C2: when a RunCycle returns an error, in whatever iteration, Schedule
\* returns an error and a nil map, runs no further profile and does not call
\* the profile picker again.
C2_NoPartialResults ==
    \A i \in DOMAIN ran :
      ~ran[i].ok =>
        /\ i = Len(ran)
        /\ pc = "returned"
        /\ ret.isNil
        /\ ret.results = EmptyMap
        /\ ret.err # NoError
        /\ ret.err[1] = "failed to run all required scheduling profiles"
        /\ curName = ran[i].name
        /\ curName \in DOMAIN picked

\* C2 happens: a profile fails in the second iteration, after another
\* profile has stored its result
C2_Witness ==
    /\ CycleFailed
    /\ pickerCalls = 2
    /\ DOMAIN profileExecutionResults # {}
    /\ ret.isNil

\* C3: the target pod of a RunCycle whose picker returns one of the scored
\* pods is one of the cycle's post-filter candidates, whatever keys the
\* scorers return.
C3_PickerDomainClosure ==
    (pc = "postCycle" /\ result # NilResult) => result \in Range(filteredPods)

\* C4: a nil Result of the picker makes RunCycle fail, so that no result map
\* ever holds a nil Result.
C4_NilPickFails ==
    /\ \A n \in DOMAIN profileExecutionResults :
         profileExecutionResults[n] # NilResult
    /\ (pc = "returned" /\ ~ret.isNil) =>
         \A n \in DOMAIN ret.results : ret.results[n] # NilResult

\* C5: one Schedule call reads the datastore once, before the first
\* profile-picker call; every RunCycle starts from that snapshot and every
\* plugin is handed pods of it; no datastore update changes the snapshot.
C5_SnapshotIsolation ==
    /\ [](pc = "idle" => (reads = 0 /\ pickerCalls = 0))
    /\ [](pc # "idle" => reads = 1)
    /\ []((pc = "filter" /\ calls = <<>>) => filteredPods = PodsSnapshot)
    /\ [](\A i \in DOMAIN calls :
            /\ calls[i].ctx = PodsSnapshot
            /\ calls[i].type \in {"Filter", "Scorer"} =>
                 Range(calls[i].arg) \subseteq Range(PodsSnapshot))
    /\ [][pc # "idle" => PodsSnapshot' = PodsSnapshot]_vars

\* C5 happens: the call returns a pod that the datastore has lost meanwhile
C5_Witness ==
    /\ pc = "returned"
    /\ ~ret.isNil
    /\ updates > 0
    /\ \E n \in DOMAIN ret.results :
         /\ ret.results[n] # NilResult
         /\ ret.results[n] \notin Range(datastore)

\* C6: the profile loop exits at the first empty answer of the profile
\* picker, and with a profile picker that answers empty after finitely many
\* entries Schedule returns.
C6_LoopTerminates ==
    /\ <>(pc = "returned")
    /\ [][(pc = "loop" /\ pickerCalls' = pickerCalls + 1 /\ picks' = picks)
            => pc' = "returned"]_vars

\* C6 happens: the call returns after two non-empty answers and an empty one
C6_Witness ==
    /\ pc = "returned"
    /\ pickerCalls = 3
    /\ Len(ran) = 2
    /\ ret.err = NoError

\* the names under which a RunCycle succeeded
OkNames == {ran[i].name : i \in {j \in DOMAIN ran : ran[j].ok}}

\* C7: the result map has one entry per profile that ran successfully, and
\* every key is the name of a profile that ran, also when a profile is
\* selected in more than one iteration.
C7_OneResultPerProfile ==
    /\ Cardinality(DOMAIN profileExecutionResults) = Cardinality(OkNames)
    /\ DOMAIN profileExecutionResults \subseteq OkNames
    /\ (pc = "returned" /\ ~ret.isNil) => ret.results = profileExecutionResults

\* C7 happens: one profile ran in two iterations and the map has one entry
C7_Witness ==
    /\ pc = "returned"
    /\ ~ret.isNil
    /\ Len(ran) = 2
    /\ ran[1].name = ran[2].name
    /\ Cardinality(DOMAIN ret.results) = 1

\* C8: when no profile ran, Schedule returns the error "failed to run any
\* SchedulingProfile" and a nil map; it never returns an empty map with a
\* nil error.
C8_NoProfileRanIsError ==
    pc = "returned" =>
      /\ ran = <<>> => ret = Return(TRUE, EmptyMap, NoProfileError)
      /\ ret.err = NoError => (~ret.isNil /\ DOMAIN ret.results # {})

\* C8 happens: the profile picker answers empty at its first call
C8_Witness ==
    /\ pc = "returned"
    /\ pickerCalls = 1
    /\ ran = <<>>
    /\ ret.err = NoProfileError

\* C9: an entry of the profile picker under a name that is no key of the
\* registered profiles is ignored: no RunCycle runs for it and no result is
\* stored under it.
C9_UnregisteredIgnored ==
    /\ curName \in ProfileNames \cup {""}
    /\ \A i \in DOMAIN ran : ran[i].name \in DOMAIN profiles
    /\ DOMAIN profileExecutionResults \subseteq DOMAIN profiles

\* what an entry of the score history adds for pod p
Contribution(e, p) == IF p \in DOMAIN e.scores THEN e.scores[p] * e.weight ELSE 0

\* the sum of the contributions for pod p
RECURSIVE WeightedSum(_, _)
WeightedSum(log, p) ==
    IF log = <<>> THEN 0
    ELSE Contribution(Head(log), p) + WeightedSum(Tail(log), p)

\* the score phase over the same score maps, taken in the order of log
RECURSIVE RunScorers(_, _)
RunScorers(acc, log) ==
    IF log = <<>> THEN acc
    ELSE RunScorers(Accumulate(acc, Head(log).scores, Head(log).weight), Tail(log))

\* C10: in the score phase the aggregate of every candidate pod is the sum of
\* score times weight over the scorers run so far, a scorer that omits the
\* pod adding 0; running the scorers in another order gives the same
\* aggregates.
C10_WeightedLinearity ==
    pc = "score" =>
      /\ Len(scoreLog) = si - 1
      /\ \A i \in DOMAIN scoreLog : scoreLog[i].weight = curProfile.scorers[i].Weight
      /\ Range(filteredPods) \subseteq DOMAIN weightedScorePerPod
      /\ \A p \in Range(filteredPods) :
           /\ weightedScorePerPod[p] = WeightedSum(scoreLog, p)
           /\ \A perm \in Perms(DOMAIN scoreLog) :
                RunScorers(InitialScores(filteredPods),
                           [i \in DOMAIN scoreLog |-> scoreLog[perm[i]]])[p]
                  = weightedScorePerPod[p]

\* C10 happens: two scorers of different weights have run, the first omits
\* a candidate that the second scores
C10_Witness ==
    /\ pc = "score"
    /\ si > Len(curProfile.scorers)
    /\ Len(scoreLog) = 2
    /\ scoreLog[1].weight # scoreLog[2].weight
    /\ \E p \in Range(filteredPods) :
         /\ p \notin DOMAIN scoreLog[1].scores
         /\ p \in DOMAIN scoreLog[2].scores
         /\ weightedScorePerPod[p] > 0

\* the calls of one type, in the order they were made
CallsOf(type) == SelectSeq(calls, LAMBDA c : c.type = type)

\* the phases of RunCycle, in order
PhaseRank(type) ==
    CASE type = "Filter" -> 1
      [] type = "Scorer" -> 2
      [] type = "Picker" -> 3
      [] type = "PostCycle" -> 4

\* the RunCycle in progress has run its last post-cycle plugin
CycleComplete == pc = "postCycle" /\ ci > Len(curProfile.postCyclePlugins)

\* C15: within one RunCycle the plugins are invoked phase by phase: the
\* filters in registration order, each on the output of the one before; then
\* each scorer once, on the pods the filters left; then the picker, once;
\* then the post-cycle plugins in registration order, each once, with the
\* Result of the picker; no phase starts before the one before it is over
C15_PhaseOrder ==
    /\ [](/\ \A i, j \in DOMAIN calls :
               i < j => PhaseRank(calls[i].type) <= PhaseRank(calls[j].type)
          /\ \A i \in DOMAIN CallsOf("Filter") :
               CallsOf("Filter")[i].plugin = curProfile.filters[i]
          /\ \A i \in DOMAIN CallsOf("Scorer") :
               /\ CallsOf("Scorer")[i].plugin = curProfile.scorers[i].Name
               /\ CallsOf("Scorer")[i].arg = filteredPods
          /\ Len(CallsOf("Picker")) <= 1
          /\ \A i \in DOMAIN CallsOf("PostCycle") :
               /\ CallsOf("PostCycle")[i].plugin = curProfile.postCyclePlugins[i]
               /\ CallsOf("PostCycle")[i].arg = result
          /\ CallsOf("Scorer") # <<>> =>
               Len(CallsOf("Filter")) = Len(curProfile.filters)
          /\ CallsOf("Picker") # <<>> =>
               /\ Len(CallsOf("Filter")) = Len(curProfile.filters)
               /\ Len(CallsOf("Scorer")) = Len(curProfile.scorers)
               /\ CallsOf("Picker")[1].plugin = curProfile.picker
          /\ CallsOf("PostCycle") # <<>> => Len(CallsOf("Picker")) = 1
          /\ CycleComplete =>
               /\ Len(CallsOf("Picker")) = 1
               /\ Len(CallsOf("PostCycle")) = Len(curProfile.postCyclePlugins))
    /\ [][(Len(calls') = Len(calls) + 1 /\ calls'[Len(calls')].type = "Filter") =>
            /\ calls'[Len(calls')].arg = filteredPods
            /\ Len(calls) = 0 => filteredPods = PodsSnapshot
            /\ Range(filteredPods') \subseteq Range(filteredPods)]_vars

\* a RunCycle of two filters, two scorers and two post-cycle plugins is over
C15_Witness ==
    /\ CycleComplete
    /\ Len(CallsOf("Filter")) = 2
    /\ Len(CallsOf("Scorer")) = 2
    /\ Len(CallsOf("PostCycle")) = 2

\* C17: with filters that return a subset of their input, the candidates
\* are a subset of the snapshot after every step of the filter phase, and a
\* profile without filters hands the whole snapshot to the score phase
C17_SubsetMonotonicity ==
    /\ pc \in {"filter", "score", "postCycle"} =>
         /\ Range(filteredPods) \subseteq Range(PodsSnapshot)
         /\ \A i \in DOMAIN CallsOf("Filter") :
              Range(CallsOf("Filter")[i].arg) \subseteq Range(PodsSnapshot)
    /\ (pc = "score" /\ curProfile.filters = <<>>) =>
         filteredPods = PodsSnapshot

\* two filters have run and left one pod of a snapshot of two, while the
\* datastore holds other pods than the snapshot by now
C17_Witness ==
    /\ pc = "filter"
    /\ Len(CallsOf("Filter")) = 2
    /\ Len(PodsSnapshot) = 2
    /\ Len(filteredPods) = 1
    /\ datastore # PodsSnapshot

\* the latest Result of every entry whose RunCycle completed, by the history
LatestResults(h) ==
    LET ok == {i \in DOMAIN h : h[i].ok}
        last(n) == CHOOSE i \in ok :
                     /\ h[i].name = n
                     /\ \A j \in ok : h[j].name = n => j <= i
    IN  [n \in {h[i].name : i \in ok} |-> h[last(n)].res]

\* C18: at every call of the profile picker within one Schedule call the
\* result map it is handed holds exactly the latest Result of each profile
\* whose RunCycle completed before (none at the first call), every profile
\* of the batches before has finished by then, and every RunCycle starts
\* afresh from the whole snapshot
C18_IterativeSelection ==
    /\ [][pickerCalls' = pickerCalls + 1 =>
            /\ priorResults' = LatestResults(ran)
            /\ pickerCalls = 0 => priorResults' = EmptyMap
            /\ DOMAIN picked = {}
            /\ curName = ""
            /\ Len(ran) = picks
            /\ \A i \in DOMAIN ran : ran[i].ok]_vars
    /\ [][(pc = "range" /\ pc' = "filter") =>
            /\ filteredPods' = PodsSnapshot
            /\ fi' = 1
            /\ calls' = <<>>]_vars

\* the second batch has started its RunCycle: the profile picker was handed
\* the Result of the first
C18_Witness ==
    /\ pickerCalls = 2
    /\ Len(ran) = 1
    /\ DOMAIN priorResults = {ran[1].name}
    /\ pc = "filter"
    /\ Len(PodsSnapshot) = 2
    /\ Len(ran[1].profile.filters) = 2

\* the post-cycle invocations the history of RunCycles accounts for: each
\* post-cycle plugin of each completed RunCycle once, in order, with the
\* Result of that RunCycle; none for a RunCycle that failed
RECURSIVE PostCycleCalls(_)
PostCycleCalls(h) ==
    IF h = <<>> THEN <<>>
    ELSE LET e == Head(h)
             own == IF e.ok
                    THEN [k \in DOMAIN e.profile.postCyclePlugins |->
                            [name |-> e.name,
                             plugin |-> e.profile.postCyclePlugins[k],
                             res |-> e.res]]
                    ELSE <<>>
         IN  own \o PostCycleCalls(Tail(h))

MaxBuilds == 2
\* plugins handed to one AddPlugins call
MaxPlugins == 2

\* a plugin object: its name and the plugin interfaces its type implements
Plugin(name, roles) ==
    [name |-> name, roles |-> roles, weighted |-> FALSE, weight |-> 0]

\* scorer.NewWeightedScorer(scorer, weight): a *WeightedScorer around scorer
NewWeightedScorer(scorer, weight) ==
    [scorer EXCEPT !.weighted = TRUE, !.weight = weight]

\* the plugin objects AddPlugins is handed
PluginObjects ==
    { Plugin("odd", {"Filter"}),
      Plugin("firstMax", {"Picker"}),
      Plugin("picker2", {"Picker", "PostCycle"}),
      Plugin("byId", {"Scorer"}),
      NewWeightedScorer(Plugin("byId", {"Scorer"}), 1),
      NewWeightedScorer(
        Plugin("s2", {"Scorer", "Filter", "Picker", "PostCycle", "PostResponse"}), 2),
      Plugin("r1", {"PostResponse"}) }

\* pluginObjects ...Plugin
PluginLists ==
    UNION {[1..n -> PluginObjects] : n \in 0..MaxPlugins}

\* fmt.Errorf("failed to register scorer '%s' without a weight. ...")
UnweightedScorerError(plugin) ==
    <<"failed to register scorer without a weight", plugin.name>>

\* fmt.Errorf("failed to set '%s' as picker, already have a registered
\* picker plugin '%s'", ...)
SecondPickerError(plugin, p) ==
    <<"failed to set as picker, already have a registered picker plugin",
      plugin.name, p.picker>>

\* PickerTaken gone wrong: AddPlugins does not look at p.picker
PickerNeverTaken(p) == FALSE

\* if p.picker != nil
PickerTaken(p) == p.picker # NoPicker

\* OnError gone wrong: the plugin that is rejected leaves no trace
OnErrorUndone(start, sofar) == start

\* return fmt.Errorf(...): p stays as the passes so far have left it;
\* start is p at the head of the pass, sofar is p at the return
OnError(start, sofar) == sofar

\* one pass of the loop of AddPlugins
AddPlugin(p, plugin) ==
    LET p1 == IF plugin.weighted
              THEN [p EXCEPT !.scorers =
                      Append(@, WeightedScorer(plugin.name, plugin.weight))]
              ELSE p
        p2 == IF "Filter" \in plugin.roles
              THEN [p1 EXCEPT !.filters = Append(@, plugin.name)]
              ELSE p1
        p3 == IF "Picker" \in plugin.roles
              THEN [p2 EXCEPT !.picker = plugin.name]
              ELSE p2
        p4 == IF "PostCycle" \in plugin.roles
              THEN [p3 EXCEPT !.postCyclePlugins = Append(@, plugin.name)]
              ELSE p3
        p5 == IF "PostResponse" \in plugin.roles
              THEN [p4 EXCEPT !.PostResponsePlugins = Append(@, plugin.name)]
              ELSE p4
    IN  IF ~plugin.weighted /\ "Scorer" \in plugin.roles
        THEN [profile |-> OnError(p, p), err |-> UnweightedScorerError(plugin)]
        ELSE IF "Picker" \in plugin.roles /\ PickerTaken(p2)
        THEN [profile |-> OnError(p, p2), err |-> SecondPickerError(plugin, p2)]
        ELSE [profile |-> p5, err |-> NoError]

\* p.AddPlugins(pluginObjects...): the profile it leaves and the error
RECURSIVE AddPlugins(_, _)
AddPlugins(p, pluginObjects) ==
    IF pluginObjects = <<>>
    THEN [profile |-> p, err |-> NoError]
    ELSE LET r == AddPlugin(p, Head(pluginObjects))
         IN  IF r.err # NoError
             THEN r
             ELSE AddPlugins(r.profile, Tail(pluginObjects))

\* the variables of a Schedule call
scheduleVars == <<callVars, pc, profileExecutionResults, picked, ret, ran,
                  cycleVars, priorResults, postCycled>>

\* a builder call on the profile: what it was called with, the profile it
\* found and the error it returned
Built(op, args, before, err) ==
    [op |-> op, args |-> args, before |-> before, err |-> err]

BuilderCall(op, args, after, err) ==
    /\ pc = "build"
    /\ builds < MaxBuilds
    /\ builder' = after
    /\ built' = Built(op, args, builder, err)
    /\ builds' = builds + 1
    /\ UNCHANGED <<datastore, updates, profiles, profilePicker, runVars,
                   respVars, scheduleVars>>

CallWithFilters ==
    \E fs \in {<<>>, <<"odd">>} :
      BuilderCall("WithFilters", fs, WithFilters(builder, fs), NoError)

CallWithScorers ==
    \E ws \in {<<WeightedScorer("byId", 1)>>} :
      BuilderCall("WithScorers", ws, WithScorers(builder, ws), NoError)

CallWithPicker ==
    \E pk \in {"firstMax", "picker2"} :
      BuilderCall("WithPicker", pk, WithPicker(builder, pk), NoError)

CallWithPostCyclePlugins ==
    \E cs \in {<<"c1">>} :
      BuilderCall("WithPostCyclePlugins", cs,
                  WithPostCyclePlugins(builder, cs), NoError)

CallAddPlugins ==
    \E ps \in PluginLists :
      LET r == AddPlugins(builder, ps)
      IN  BuilderCall("AddPlugins", ps, r.profile, r.err)

\* NewSchedulerWithConfig(datastore, NewSchedulerConfig(profilePicker,
\* profiles)) with the profile that was built as "triage"
CallNewSchedulerWithConfig ==
    /\ pc = "build"
    /\ profiles' = [n \in ProfileNames |->
                      IF n = "triage" THEN builder ELSE BareProfile]
    /\ built' = [op |-> "NewSchedulerWithConfig"]
    /\ pc' = "idle"
    /\ UNCHANGED <<datastore, updates, profilePicker, runVars, respVars,
                   builder, builds, callVars, profileExecutionResults, picked,
                   ret, ran, cycleVars, priorResults, postCycled>>

\* no Schedule call is in progress
NoSchedule ==
    /\ reads = 0
    /\ pickerCalls = 0
    /\ picks = 0
    /\ PodsSnapshot = <<>>
    /\ profileExecutionResults = EmptyMap
    /\ picked = EmptyMap
    /\ ret = NotReturned
    /\ ran = <<>>
    /\ curName = ""
    /\ curProfile = NewSchedulerProfile
    /\ filteredPods = <<>>
    /\ fi = 1
    /\ weightedScorePerPod = EmptyMap
    /\ si = 1
    /\ scoredPods = <<>>
    /\ result = NilResult
    /\ ci = 1
    /\ calls = <<>>
    /\ scoreLog = <<>>
    /\ priorResults = EmptyMap
    /\ postCycled = <<>>

InitBuild ==
    /\ datastore = SortedSeq(Pods)
    /\ updates = 0
    /\ profiles = EmptyMap
    /\ profilePicker = "AllProfilesPicker"
    /\ pc = "build"
    /\ builder = NewSchedulerProfile
    /\ built = [op |-> "NewSchedulerProfile"]
    /\ builds = 0
    /\ NoSchedule
    /\ NoSecondRun
    /\ NoResponse

NextBuild ==
    \/ CallWithFilters
    \/ CallWithScorers
    \/ CallWithPicker
    \/ CallWithPostCyclePlugins
    \/ CallAddPlugins
    \/ CallNewSchedulerWithConfig
    \/ ScheduleStep

SpecBuild == InitBuild /\ [][NextBuild]_vars

\* C11: a profile built by the builders has a picker by the time a RunCycle
\* that Schedule started reaches the pick phase: p.picker.Pick is never
\* called on a nil picker
C11_PickerNonNil ==
    /\ pc # "panic"
    /\ (pc = "score" /\ si > Len(curProfile.scorers)) => ~PickerIsNil(curProfile)

\* the i-th plugin of the list is a Scorer that is no *WeightedScorer
Unweighted(ps, i) == "Scorer" \in ps[i].roles /\ ~ps[i].weighted

\* the i-th plugin of the list is a Picker and the profile has a picker
\* already: the one it had before the call or an earlier one of the list
SecondPicker(before, ps, i) ==
    /\ "Picker" \in ps[i].roles
    /\ \/ before.picker # NoPicker
       \/ \E j \in 1..(i - 1) : "Picker" \in ps[j].roles

\* the plugins of the list that AddPlugins must reject
Rejects(before, ps) ==
    {i \in DOMAIN ps : Unweighted(ps, i) \/ SecondPicker(before, ps, i)}

\* the first of them
FirstReject(before, ps) ==
    CHOOSE i \in Rejects(before, ps) : \A j \in Rejects(before, ps) : i <= j

\* the picker in place when the i-th plugin of the list is looked at
PickerBefore(before, ps, i) ==
    IF before.picker # NoPicker THEN before.picker
    ELSE LET pk == {j \in 1..(i - 1) : "Picker" \in ps[j].roles}
         IN  IF pk = {} THEN NoPicker
             ELSE ps[CHOOSE j \in pk : \A l \in pk : j <= l].name

\* C12: AddPlugins returns an error for a Scorer that is not wrapped in a
\* WeightedScorer and for a picker when the profile has one already, from
\* WithPicker or from AddPlugins; the picker of a profile is one plugin or
\* none, and a rejected picker does not replace the registered one
C12_AddPluginsRejects ==
    /\ builder.picker \in
         {NoPicker, "firstMax", "picker2"} \cup {o.name : o \in PluginObjects}
    /\ built.op = "AddPlugins" =>
         LET ps == built.args
             before == built.before
         IN  /\ Rejects(before, ps) # {} <=> built.err # NoError
             /\ Rejects(before, ps) # {} =>
                  LET k == FirstReject(before, ps)
                  IN  IF Unweighted(ps, k)
                      THEN built.err = UnweightedScorerError(ps[k])
                      ELSE /\ built.err[2] = ps[k].name
                           /\ built.err[3] = PickerBefore(before, ps, k)
                           /\ builder.picker = PickerBefore(before, ps, k)

\* AddPlugins has rejected a picker on a profile whose picker WithPicker set
C12_Witness ==
    /\ built.op = "AddPlugins"
    /\ Len(built.err) = 3
    /\ built.before.picker = "firstMax"
    /\ built.err[2] = "picker2"
    /\ builder.picker = "firstMax"

\* the names of the plugins of the list at the indices I, in list order
NamesAt(ps, I) == [n \in 1..Cardinality(I) |-> ps[SortedSeq(I)[n]].name]

\* AddPlugins has returned an error: the k-th plugin of its list is rejected
AddPluginsFailed == built.op = "AddPlugins" /\ built.err # NoError

\* the lists of the profile after AddPlugins failed at the k-th plugin: the
\* plugins before the k-th are registered in every role, the k-th has the
\* roles that come before its rejection (none for a Scorer without weight;
\* the WeightedScorer entry and the filter role for a second picker), the
\* plugins after the k-th are not registered
RolesKept ==
    LET ps == built.args
        before == built.before
        k == FirstReject(before, ps)
        early == 1..(k - 1)
        upTo == IF Unweighted(ps, k) THEN early ELSE 1..k
    IN  /\ builder.scorers = before.scorers \o
             [n \in 1..Cardinality({i \in upTo : ps[i].weighted}) |->
                LET i == SortedSeq({j \in upTo : ps[j].weighted})[n]
                IN  WeightedScorer(ps[i].name, ps[i].weight)]
        /\ builder.filters = before.filters \o
             NamesAt(ps, {i \in upTo : "Filter" \in ps[i].roles})
        /\ builder.postCyclePlugins = before.postCyclePlugins \o
             NamesAt(ps, {i \in early : "PostCycle" \in ps[i].roles})
        /\ builder.PostResponsePlugins = before.PostResponsePlugins \o
             NamesAt(ps, {i \in early : "PostResponse" \in ps[i].roles})

\* C20: AddPlugins is not atomic. When it fails at the k-th plugin the
\* profile keeps the roles of the plugins before it and the roles of the
\* k-th that come before the rejection, and the picker is the one in place
\* when the k-th plugin was looked at: the picker from before the call or,
\* if there was none, the picker one of the first k-1 plugins registered
C20_AddPluginsPartial ==
    AddPluginsFailed =>
      /\ RolesKept
      /\ builder.picker =
           PickerBefore(built.before, built.args, FirstReject(built.before, built.args))

\* C20 as stated: ... and the picker of the profile is the one it had
\* before the call
C20_PickerUnchanged ==
    AddPluginsFailed =>
      /\ RolesKept
      /\ builder.picker = built.before.picker

\* AddPlugins has rejected its second plugin, a weighted scorer that is a
\* filter too, as a second picker
C20_Witness ==
    /\ AddPluginsFailed
    /\ Len(built.args) = 2
    /\ built.args[2].name = "s2"
    /\ Len(built.err) = 3
    /\ "s2" \in Range(builder.filters)
    /\ "s2" \notin Range(builder.postCyclePlugins)

(***************************************************************************)
(* Scheduler.OnResponse, next to a Schedule call                           *)
(***************************************************************************)
\* pod p is named p; NumPods + 1 is the name of no pod
PodNames == 1..(NumPods + 1)

\* FindTargetPod gone wrong: the target is the pod the loop looked at last
FindTargetPodLast(pods, name) ==
    IF pods = <<>> THEN NilPod ELSE pods[Len(pods)]

\* for _, pod := range pods { if pod...String() == targetPodName {
\*     targetPod = pod; break } }, from var targetPod types.Pod
FindTargetPod(pods, name) ==
    LET hits == {i \in DOMAIN pods : pods[i] = name}
    IN  IF hits = {} THEN NilPod
        ELSE pods[CHOOSE i \in hits : \A j \in hits : i <= j]

\* UnsharedResults gone wrong: the calls share one result map, which
\* OnResponse empties
SharedResultsEmptied(results) == EmptyMap

\* profileExecutionResults := map[string]*types.Result{} is a map of
\* OnResponse's own: the map of a Schedule call in progress stays as it is
UnsharedResults(results) == results

\* s.profilePicker.Pick(nil, s.profiles, profileExecutionResults), as the
\* history keeps it
PickCall(request, results, answer) ==
    [request |-> request, results |-> results, answer |-> answer]

\* OnResponse up to its loop: the pods, the target pod, the profile picker
OnResponseStart ==
    /\ rpc = "idle"
    /\ \E name \in PodNames :
         /\ targetPodName' = name
         /\ targetPod' = FindTargetPod(PodGetAll, name)
    /\ rPods' = PodGetAll
    /\ profileExecutionResults' = UnsharedResults(profileExecutionResults)
    /\ \E batch \in ProfilePickerPlugin(profilePicker, EmptyMap) :
         /\ rPicked' = batch
         /\ rPickerArgs' = Append(rPickerArgs, PickCall("nil", EmptyMap, batch))
         /\ rpc' = IF DOMAIN batch = {} THEN "done" ELSE "range"
    /\ UNCHANGED <<datastore, updates, profiles, profilePicker, runVars,
                   buildVars, rName, ri, respCalls, callVars, pc, picked, ret,
                   ran, cycleVars, priorResults, postCycled>>

\* `for _, profile := range profiles` takes the entries in any order
OnResponseNextProfile ==
    /\ rpc = "range"
    /\ \E name \in DOMAIN rPicked : rName' = name
    /\ ri' = 1
    /\ rpc' = "plugins"
    /\ UNCHANGED <<datastore, updates, profiles, profilePicker, runVars,
                   buildVars, targetPodName, targetPod, rPods, rPicked,
                   rPickerArgs, respCalls, scheduleVars>>

\* an invocation of a post-response plugin, as the history keeps it
PostResponseCall(name, plugin, target) ==
    [name |-> name, plugin |-> plugin, target |-> target]

\* one pass of the loop of runPostResponsePlugins
PostResponseStep ==
    /\ rpc = "plugins"
    /\ ri <= Len(rPicked[rName].PostResponsePlugins)
    /\ respCalls' = Append(respCalls,
         PostResponseCall(rName, PluginAt(rPicked[rName].PostResponsePlugins, ri),
                          targetPod))
    /\ ri' = ri + 1
    /\ UNCHANGED <<datastore, updates, profiles, profilePicker, runVars,
                   buildVars, rpc, targetPodName, targetPod, rPods, rPicked,
                   rName, rPickerArgs, scheduleVars>>

\* runPostResponsePlugins returns; the next entry, or OnResponse returns
PostResponseDone ==
    /\ rpc = "plugins"
    /\ ri > Len(rPicked[rName].PostResponsePlugins)
    /\ rPicked' = [n \in (DOMAIN rPicked) \ {rName} |-> rPicked[n]]
    /\ rName' = ""
    /\ ri' = 1
    /\ rpc' = IF DOMAIN rPicked' = {} THEN "done" ELSE "range"
    /\ UNCHANGED <<datastore, updates, profiles, profilePicker, runVars,
                   buildVars, targetPodName, targetPod, rPods, rPickerArgs,
                   respCalls, scheduleVars>>

OnResponseStep ==
    \/ OnResponseStart
    \/ OnResponseNextProfile
    \/ PostResponseStep
    \/ PostResponseDone

\* profiles with post-response plugins
ResponseProfiles ==
    [n \in ProfileNames |->
       IF n = "triage"
       THEN AddPlugins(
              WithPostCyclePlugins(
                WithPicker(
                  WithScorers(WithFilters(NewSchedulerProfile, <<"f1">>),
                              <<WeightedScorer("byId", 1)>>),
                  "picker"),
                <<"c1">>),
              <<Plugin("r1", {"PostResponse"}), Plugin("r2", {"PostResponse"})>>).profile
       ELSE AddPlugins(BareProfile, <<Plugin("r1", {"PostResponse"})>>).profile]

\* no OnResponse call has been made yet
ResponseIdle ==
    /\ rpc = "idle"
    /\ targetPodName = NilPod
    /\ targetPod = NilPod
    /\ rPods = <<>>
    /\ rPicked = EmptyMap
    /\ rName = ""
    /\ ri = 1
    /\ rPickerArgs = <<>>
    /\ respCalls = <<>>

InitResponse ==
    /\ datastore \in DatastoreValues
    /\ updates = 0
    /\ profiles = ResponseProfiles
    /\ profilePicker = "custom"
    /\ pc = "idle"
    /\ NoSchedule
    /\ NoSecondRun
    /\ NoBuilder
    /\ ResponseIdle

NextResponse ==
    \/ DatastoreUpdate
    \/ OnResponseStep

SpecResponse == InitResponse /\ [][NextResponse]_vars

(***************************************************************************)
(* A Schedule call and an OnResponse call at the same time, on a scheduler *)
(* with the profile picker of NewScheduler                                 *)
(***************************************************************************)
InitConcurrent ==
    /\ datastore \in DatastoreValues
    /\ updates = 0
    /\ profiles = ResponseProfiles
    /\ profilePicker = "AllProfilesPicker"
    /\ pc = "idle"
    /\ NoSchedule
    /\ NoSecondRun
    /\ NoBuilder
    /\ ResponseIdle

NextConcurrent ==
    \/ DatastoreUpdate
    \/ ScheduleStep
    \/ OnResponseStep

SpecConcurrent == InitConcurrent /\ [][NextConcurrent]_vars

\* the post-response invocations made for the entry n of the batch
RespCallsOf(n) == SelectSeq(respCalls, LAMBDA c : c.name = n)

\* C13: OnResponse with a targetPodName that names no pod of its pods goes
\* on all the same: it calls the profile picker once, with a nil request and
\* an empty result map, and invokes every post-response plugin of every
\* profile returned once, in registration order within a profile, with a
\* nil target pod; it runs no RunCycle
C13_UnknownTargetPod ==
    (rpc # "idle" /\ targetPodName \notin Range(rPods)) =>
      /\ targetPod = NilPod
      /\ Len(rPickerArgs) = 1
      /\ rPickerArgs[1].request = "nil"
      /\ rPickerArgs[1].results = EmptyMap
      /\ \A n \in DOMAIN rPickerArgs[1].answer :
           LET plugins == rPickerArgs[1].answer[n].PostResponsePlugins
               made == RespCallsOf(n)
           IN  /\ Len(made) <= Len(plugins)
               /\ \A i \in DOMAIN made :
                    made[i] = PostResponseCall(n, plugins[i], NilPod)
               /\ rpc = "done" => Len(made) = Len(plugins)
      /\ \A i \in DOMAIN respCalls : respCalls[i].name \in DOMAIN rPickerArgs[1].answer
      /\ pc = "idle"
      /\ ran = <<>>
      /\ calls = <<>>
      /\ ret = NotReturned

\* OnResponse has returned: the target named none of its two pods, and both
\* profiles had their post-response plugins invoked
C13_Witness ==
    /\ rpc = "done"
    /\ Len(rPods) = 2
    /\ targetPodName \notin Range(rPods)
    /\ Len(RespCallsOf("triage")) = 2
    /\ Len(RespCallsOf("refine")) = 1

\* what Schedule returns by the RunCycles of its own call alone
OwnResult ==
    IF CycleFailed
    THEN ScheduleFails(EmptyMap, NoPodsError)
    ELSE AfterLoop(LatestResults(ran))

DeterministicShapes ==
    { WithPostCyclePlugins(
        WithPicker(
          WithScorers(WithFilters(NewSchedulerProfile, fs), ws),
          "firstMax"),
        <<"c1">>) : fs \in {<<>>, <<"odd">>},
                    ws \in {<<>>, <<WeightedScorer("byId", 1)>>} }

InitAgain ==
    /\ datastore \in DatastoreValues
    /\ updates = 0
    /\ \E shape \in DeterministicShapes :
         profiles = [n \in ProfileNames |->
                       IF n = "triage" THEN shape
                       ELSE WithPicker(NewSchedulerProfile, "firstMax")]
    /\ profilePicker = "AllProfilesPicker"
    /\ pc = "idle"
    /\ NoSchedule
    /\ NoSecondRun
    /\ NoBuilder
    /\ NoResponse

\* the first Schedule call has returned; Schedule is called again with the
\* same request
ScheduleAgain ==
    /\ pc = "returned"
    /\ runNo = 1
    /\ firstRet' = ret
    /\ runNo' = runNo + 1
    /\ pc' = "idle"
    /\ reads' = 0
    /\ pickerCalls' = 0
    /\ picks' = 0
    /\ PodsSnapshot' = <<>>
    /\ profileExecutionResults' = EmptyMap
    /\ picked' = EmptyMap
    /\ ret' = NotReturned
    /\ ran' = <<>>
    /\ priorResults' = EmptyMap
    /\ postCycled' = <<>>
    /\ EndCycle
    /\ UNCHANGED <<datastore, updates, profiles, profilePicker, buildVars,
                   respVars>>

NextAgain ==
    \/ ScheduleStep
    \/ ScheduleAgain

SpecAgain == InitAgain /\ [][NextAgain]_vars

\* C14: with deterministic filters, scorers, pickers and profile picker and
\* an unchanged datastore, a second Schedule call with the same request
\* returns what the first returned, whatever the order the profiles of a
\* batch are run in and the order the scored pods are handed to the picker in
C14_Determinism ==
    (runNo = 2 /\ pc = "returned") => ret = firstRet
====
